---- MODULE Spec2Model ----
(***************************************************************************)
(* FrameForge 3D: the model-generation queue (src/queue/queue.ts), the     *)
(* worker and its two processors (src/worker.ts), the generation pipeline  *)
(* (src/generators/ModelGenerator.ts) and the USDZ converter               *)
(* (src/unnamed/part_009).                                                 *)
(*                                                                         *)
(* BullMQ, PostgreSQL, the file system and the storage service are the     *)
(* environment: every call into them either succeeds or rejects, chosen    *)
(* nondeterministically, with the effects the code relies on.              *)
(***************************************************************************)
EXTENDS Naturals, Integers, Sequences, FiniteSets, TLC

\* ------------------------------------------------------------------ bounds
\* Jobs ever added to the queue in one behaviour of Spec.
MaxJobs == 2
\* Longest frameIds array of one batch submission / one batch job.
MaxBatch == 2
\* Rows ever inserted into generation_jobs in one behaviour: one per attempt.
MaxRecords == 3
\* Processor runs (attempts of any job) ever started in one behaviour of Spec.
MaxRuns == 2
\* Jobs ever added to the queue in one behaviour of SpecRetry.
MaxRetryJobs == 1
\* Processor runs ever started in one behaviour of SpecRetry: one more than a
\* job is allowed attempts.
MaxRetryRuns == 4

\* Jobs ever added to the queue in one behaviour of SpecLive; its processor
\* runs are as many as these jobs are allowed attempts.
MaxLiveJobs == 1

\* --------------------------------------------------------- program constants
\* defaultJobOptions.attempts
attempts == 3
\* parseInt(process.env.WORKER_CONCURRENCY || '2', 10)
WORKER_CONCURRENCY == 2

FrameIds == {"f1", "f2"}

\* The id BullMQ is given for a single submission: `frame-${frameId}`.
FrameJobId(f) == IF f = "f1" THEN "frame-f1" ELSE "frame-f2"
\* The ids BullMQ generates itself when no jobId option is passed.
AutoJobId(n) == IF n = 1 THEN "1" ELSE IF n = 2 THEN "2" ELSE IF n = 3 THEN "3" ELSE "4"
\* The id of the job the batch processor is given.
BatchJobId == "batch"
\* Every job id: the worker runs at most one processor per job at a time.
JobIds == {FrameJobId(f) : f \in FrameIds} \cup {AutoJobId(n) : n \in 1..4} \cup {BatchJobId}

\* storage key `frames/${frame.id}/${stem}.${ext}`
StorageKey(f, ext) == [frame |-> f, ext |-> ext]
\* `${baseUrl}/${key}`: the public URL of the object stored under a key
getPublicUrl(key) == [base |-> "baseUrl", key |-> key]
\* A model URL column that is null, or a URL argument that is absent.
NoUrl == [base |-> "", key |-> StorageKey("", "")]

\* A row of the frames table, as getFrame returns it (null when absent).
NoFrame == [id |-> "", model_glb_url |-> NoUrl, model_usdz_url |-> NoUrl]
FrameRow(f, glb, usdz) == [id |-> f, model_glb_url |-> glb, model_usdz_url |-> usdz]

VARIABLES
  queue,      \* the model-generation queue: job id -> job
  nextId,     \* BullMQ's id counter for jobs added without a jobId
  paused,     \* whether the queue is paused
  call,       \* a call of a function taken on its own: its arguments and result
  created,    \* number of jobs ever added
  runs,       \* number of processor runs ever started
  frames,     \* the frames table: frame id -> row, or NoFrame
  records,    \* the generation_jobs table, in insertion order
  storage,    \* the storage service: key -> the object stored under it
  tempFiles,  \* the temp directory: path -> the file at it
  P,          \* the processor run the worker has going for each job, if any
  batch       \* the batch processor's loop state

vars == <<queue, nextId, paused, call, created, runs, frames, records, storage, tempFiles, P, batch>>

\* No function is called on its own.
NoCall == [fn |-> "none", done |-> FALSE]

NonTerminal == {"waiting", "delayed", "active"}
Terminal == {"completed", "failed"}

\* The message of an error that a rejected call into the environment throws.
Rejected == "rejected"

\* A number that is absent: undefined in a value, NULL in a row; a number n
\* that is there is <<n>>.
Absent == <<>>

NoReturn ==
  [status |-> "none", glbUrl |-> NoUrl, usdzUrl |-> NoUrl, fileSize |-> Absent,
   generationTimeMs |-> Absent]

\* modelGenerationQueue.add('generate-model', data, opts)
NewJob(id, f, force, prio) ==
  [id |-> id, name |-> "generate-model", frameId |-> f, forceRegenerate |-> force,
   priority |-> prio, state |-> "waiting", attemptsStarted |-> 0, attemptsMade |-> 0,
   returnvalue |-> NoReturn, failedReason |-> ""]

IdleSlot ==
  [pc |-> "idle", kind |-> "single", frame |-> NoFrame, rec |-> 0,
   err |-> "", glbUrl |-> NoUrl, usdzUrl |-> NoUrl, tried |-> <<>>, success |-> FALSE,
   usdzBy |-> "none", fileSize |-> 0, elapsed |-> 0, uploads |-> <<>>, validated |-> FALSE,
   updatedFrame |-> FALSE, genCalls |-> 0, genEnd |-> "no", wrote |-> {}]

\* The batch processor's job data and loop state: i is the index of the frame
\* id in hand, errors the indices at which a call rejected.
NoBatch == [frameIds |-> <<>>, forceRegenerate |-> FALSE, i |-> 0, results |-> <<>>,
            pc |-> "none", errors |-> {}]

\* The frames table before any generation: frame f1 has no models yet, and
\* there is no frame f2.
InitialFrames == [f \in FrameIds |-> IF f = "f1" THEN FrameRow(f, NoUrl, NoUrl) ELSE NoFrame]

Init ==
  /\ queue = <<>>
  /\ nextId = 1
  /\ paused = FALSE
  /\ call = NoCall
  /\ created = 0
  /\ runs = 0
  /\ frames = InitialFrames
  /\ records = <<>>
  /\ storage = <<>>
  /\ tempFiles = <<>>
  /\ P = [j \in JobIds |-> IdleSlot]
  /\ batch = NoBatch

\* ------------------------------------------------------------ queue.ts

\* AddWithId as a plain write: the job under the id is replaced.
AddWithIdReplacing(q, id, job) == (id :> job) @@ q
\* queue.add with a jobId: BullMQ adds nothing when a job with that id is
\* still held by the queue, in whatever state.
AddWithId(q, id, job) == IF id \in DOMAIN q THEN q ELSE (id :> job) @@ q

\* The options callers pass to addGenerationJob.
Options == {[forceRegenerate |-> FALSE, priority |-> 0], [forceRegenerate |-> TRUE, priority |-> 1]}

\* addGenerationJob(frameId, options)
addGenerationJob(f, force, prio, maxJobs) ==
  /\ created < maxJobs
  /\ queue' = AddWithId(queue, FrameJobId(f), NewJob(FrameJobId(f), f, force, <<prio>>))
  /\ created' = IF FrameJobId(f) \in DOMAIN queue THEN created ELSE created + 1
  /\ UNCHANGED <<nextId, paused, call, runs, frames, records, storage, tempFiles, P, batch>>

\* The jobs one batch submission adds: one per element of frameIds, each
\* under a fresh generated id (no jobId option is passed).
RECURSIVE BatchAdd(_, _, _, _)
BatchAdd(q, n, fids, force) ==
  IF fids = <<>> THEN q
  ELSE BatchAdd((AutoJobId(n) :> NewJob(AutoJobId(n), Head(fids), force, <<>>)) @@ q,
                n + 1, Tail(fids), force)

\* The forceRegenerate option callers pass to addBatchGenerationJob: none, as
\* the regenerate-missing route does (part_009:245), which makes it false.
BatchOptions == {FALSE}

\* addBatchGenerationJob(frameIds, options)
addBatchGenerationJob(fids, force, maxJobs) ==
  /\ created + Len(fids) <= maxJobs
  /\ queue' = BatchAdd(queue, nextId, fids, force)
  /\ nextId' = nextId + Len(fids)
  /\ created' = created + Len(fids)
  /\ UNCHANGED <<paused, call, runs, frames, records, storage, tempFiles, P, batch>>

\* Cleanable with no test of the state: clean takes any job.
CleanableAny(job) == TRUE
\* The jobs modelGenerationQueue.clean(0, 100, 'completed') and
\* clean(0, 100, 'failed') take, and removeOnComplete / removeOnFail age out.
Cleanable(job) == job.state \in Terminal

\* A terminal job leaves the queue: removeOnComplete / removeOnFail age it
\* out, and clearCompletedJobs / clearFailedJobs clean it.
RemoveTerminal(j) ==
  /\ j \in DOMAIN queue
  /\ Cleanable(queue[j])
  /\ queue' = [k \in DOMAIN queue \ {j} |-> queue[k]]
  /\ UNCHANGED <<nextId, paused, call, created, runs, frames, records, storage, tempFiles, P, batch>>

\* pauseQueue(): the workers take no further job; jobs being processed go on
pauseQueue ==
  /\ paused' = TRUE
  /\ UNCHANGED <<queue, nextId, call, created, runs, frames, records, storage, tempFiles, P,
                 batch>>

\* resumeQueue()
resumeQueue ==
  /\ paused' = FALSE
  /\ UNCHANGED <<queue, nextId, call, created, runs, frames, records, storage, tempFiles, P,
                 batch>>

\* ------------------------------------------------------------ BullMQ worker

\* ShouldRetry with the comparison off by one: a retry after the last attempt.
ShouldRetryOnceMore(job) == job.attemptsMade <= attempts
\* After a failed attempt BullMQ retries while attemptsMade < opts.attempts.
ShouldRetry(job) == job.attemptsMade < attempts

\* The processor of slot s threw: the worker rethrows (worker.ts:28-31) and
\* BullMQ counts the attempt, then delays the job for a retry or fails it.
Throw(s, msg) ==
  LET j == s
      made == [queue[j] EXCEPT !.attemptsMade = @ + 1, !.failedReason = msg]
  IN /\ queue' = [queue EXCEPT ![j] =
                    [made EXCEPT !.state = IF ShouldRetry(made) THEN "delayed" ELSE "failed"]]
     /\ P' = [P EXCEPT ![s] = IdleSlot]

\* The processor of slot s returned a value: BullMQ completes the job.
Return(s, value) ==
  LET j == s
  IN /\ queue' = [queue EXCEPT ![j] = [@ EXCEPT !.state = "completed", !.returnvalue = value]]
     /\ P' = [P EXCEPT ![s] = IdleSlot]

\* The processors the worker has running.
Active == {j \in JobIds : P[j].pc # "idle"}

\* FreeSlot with no concurrency option: the worker takes whatever is waiting.
FreeSlotUnbounded(active) == TRUE
\* worker.ts:35  concurrency: the worker runs at most that many processors.
FreeSlot(active) == Cardinality(active) < WORKER_CONCURRENCY

\* The worker has a free concurrency slot, the queue is not paused and the
\* worker is not closing: it takes a waiting job and starts its processor.
Pick(j, maxRuns) ==
  /\ ~paused
  /\ call.fn # "gracefulShutdown"
  /\ runs < maxRuns
  /\ runs' = runs + 1
  /\ FreeSlot(Active)
  /\ j \in DOMAIN queue
  /\ queue[j].state = "waiting"
  /\ queue' = [queue EXCEPT ![j] = [@ EXCEPT !.state = "active", !.attemptsStarted = @ + 1]]
  /\ P' = [P EXCEPT ![j] = [IdleSlot EXCEPT !.pc = "getFrame"]]
  /\ UNCHANGED <<nextId, paused, call, created, frames, records, storage, tempFiles, batch>>

\* The backoff delay of a job that is to be retried runs out.
Promote(j) ==
  /\ j \in DOMAIN queue
  /\ queue[j].state = "delayed"
  /\ queue' = [queue EXCEPT ![j] = [@ EXCEPT !.state = "waiting"]]
  /\ UNCHANGED <<nextId, paused, call, created, runs, frames, records, storage, tempFiles, P, batch>>

\* ------------------------------------------------------------ worker.ts

\* The processor of slot s moves on; nothing outside the slot changes.
Goto(s, slot) ==
  /\ P' = [P EXCEPT ![s] = slot]
  /\ UNCHANGED <<queue, nextId, paused, call, created, runs, frames, records, storage, tempFiles, batch>>

\* The processor of slot s rejects outside processGenerationJob's try block.
Reject(s, msg) ==
  /\ Throw(s, msg)
  /\ UNCHANGED <<nextId, paused, call, created, runs, frames, records, storage, tempFiles, batch>>

Single(s, pc) == P[s].kind = "single" /\ P[s].pc = pc

\* ModelsExist with the flag inverted: only a forced job is skipped.
ModelsExistForced(force, frame) ==
  force /\ frame.model_glb_url # NoUrl /\ frame.model_usdz_url # NoUrl
\* The skip test of worker.ts:73 and of worker.ts:157.
ModelsExist(force, frame) ==
  ~force /\ frame.model_glb_url # NoUrl /\ frame.model_usdz_url # NoUrl

\* The value returned at worker.ts:75-80.
Skipped(frame) ==
  [status |-> "skipped", glbUrl |-> frame.model_glb_url, usdzUrl |-> frame.model_usdz_url,
   fileSize |-> Absent, generationTimeMs |-> Absent]

\* worker.ts:61-81  await job.updateProgress(10), then db.getFrame(frameId): a
\* null frame throws "Frame not found"; await job.updateProgress(20), then the
\* skip check
GetFrame(s) ==
  /\ Single(s, "getFrame")
  /\ \E progressed \in BOOLEAN, ok \in BOOLEAN :
       IF ~progressed \/ ~ok THEN Reject(s, Rejected)
       ELSE LET frame == frames[queue[s].frameId]
            IN IF frame = NoFrame THEN Reject(s, "Frame not found")
               ELSE \E progressed20 \in BOOLEAN :
                      IF ~progressed20 THEN Reject(s, Rejected)
                      ELSE IF ModelsExist(queue[s].forceRegenerate, frame)
                      THEN /\ Return(s, Skipped(frame))
                           /\ UNCHANGED <<nextId, paused, call, created, runs, frames, records, storage,
                                          tempFiles, batch>>
                      ELSE Goto(s, [P[s] EXCEPT !.pc = "createJob", !.frame = frame])

\* A new row of generation_jobs: INSERT ... VALUES ($1, 'pending', NOW()).
NewRecord(f) ==
  [frame_id |-> f, status |-> "pending", glb_url |-> NoUrl, usdz_url |-> NoUrl,
   file_size |-> Absent, generation_time_ms |-> Absent, error_message |-> ""]

\* UPDATE generation_jobs SET status = $1, glb_url = COALESCE($2, glb_url), ...
\* with the absent arguments null.
SetStatus(row, status, glb, usdz, size, time, msg) ==
  [row EXCEPT !.status = status,
              !.glb_url = IF glb = NoUrl THEN @ ELSE glb,
              !.usdz_url = IF usdz = NoUrl THEN @ ELSE usdz,
              !.file_size = IF size = Absent THEN @ ELSE size,
              !.generation_time_ms = IF time = Absent THEN @ ELSE time,
              !.error_message = IF msg = "" THEN @ ELSE msg]

\* worker.ts:83-86  await job.updateProgress(30), then
\* db.createGenerationJob(frameId)
CreateJob(s) ==
  /\ Single(s, "createJob")
  /\ \E progressed \in BOOLEAN, ok \in BOOLEAN :
       IF ~progressed \/ ~ok THEN Reject(s, Rejected)
       ELSE /\ Len(records) < MaxRecords
            /\ records' = Append(records, NewRecord(P[s].frame.id))
            /\ P' = [P EXCEPT ![s] = [@ EXCEPT !.pc = "setProcessing", !.rec = Len(records) + 1]]
            /\ UNCHANGED <<queue, nextId, paused, call, created, runs, frames, storage, tempFiles, batch>>

\* worker.ts:87  db.updateGenerationJobStatus(jobId, 'processing')
SetProcessing(s) ==
  /\ Single(s, "setProcessing")
  /\ \E ok \in BOOLEAN :
       IF ~ok THEN Reject(s, Rejected)
       ELSE /\ records' = [records EXCEPT ![P[s].rec] = SetStatus(@, "processing", NoUrl, NoUrl, Absent, Absent, "")]
            /\ P' = [P EXCEPT ![s] = [@ EXCEPT !.pc = "export"]]
            /\ UNCHANGED <<queue, nextId, paused, call, created, runs, frames, storage, tempFiles, batch>>

\* ------------------------------------------------------------ ModelGenerator.ts

\* 1024 * 1024, the divisor of stats.size in validateGLB and exportToGLB
MB == 1048576
\* parseFloat(process.env.MAX_FILE_SIZE_MB || '2')
maxSizeMB == 2
\* Sizes an exported GLB may have: at the ceiling and just above it.
GlbSizes == {maxSizeMB * MB, maxSizeMB * MB + 1}

\* path.join(this.tempDir, `${frame.sku || frame.id}.<ext>`)
TempPath(frame, ext) == [frame |-> frame.id, ext |-> ext]
\* path.join(path.dirname(glbPath), '<script>.py')
ScriptPath(name) == [frame |-> "", ext |-> name]

WriteFile(path, content) == tempFiles' = (path :> content) @@ tempFiles
\* fs.unlink: the file is gone afterwards; the rejection for a file that is
\* already gone is ignored by every caller.
Unlink(path) == tempFiles' = [q \in DOMAIN tempFiles \ {path} |-> tempFiles[q]]

\* The outcomes pushed at worker.ts:152, 159-164, 179-184 and 187-191.
Outcome(f, status, glb, usdz, msg) ==
  [frameId |-> f, status |-> status, glbUrl |-> glb, usdzUrl |-> usdz, error |-> msg]

\* The batch loop pushed an outcome for frameIds[i]: with a next frame id its
\* updateProgress is awaited, without one the aggregate is returned
\* (worker.ts:195-204).
BatchPush(s, result) ==
  /\ batch' = [batch EXCEPT !.results = Append(@, result), !.i = @ + 1,
                 !.pc = IF batch.i = Len(batch.frameIds) THEN "returned" ELSE @,
                 !.errors = IF result.status = "failed" THEN @ \cup {batch.i} ELSE @]
  /\ P' = [P EXCEPT ![s] = [IdleSlot EXCEPT !.kind = "batch",
              !.pc = IF batch.i = Len(batch.frameIds) THEN "idle" ELSE "batchProgress"]]

\* worker.ts:185-192  the catch block of the batch loop pushes a failed outcome
BatchCatch(s, f, msg) == BatchPush(s, Outcome(f, "failed", NoUrl, NoUrl, msg))

\* The try block of worker.ts:91 or generateModels is left by an exception:
\* their locals are gone.
OutOfScope(slot) ==
  [slot EXCEPT !.glbUrl = NoUrl, !.usdzUrl = NoUrl, !.fileSize = 0, !.elapsed = 0,
               !.usdzBy = "none",
               !.tried = <<>>, !.success = FALSE]

\* generateModels, run from the slot state `slot`, throws
\* (ModelGenerator.ts:112-115 logs and rethrows): control is in the caller's
\* catch block, worker.ts:122 or worker.ts:185.
GenThrowFrom(s, slot, msg) ==
  IF slot.kind = "single"
  THEN /\ P' = [P EXCEPT ![s] = [OutOfScope(slot) EXCEPT !.pc = "catch", !.err = msg,
                                                       !.genEnd = "threw"]]
       /\ UNCHANGED batch
  ELSE BatchCatch(s, slot.frame.id, msg)

GenThrow(s, msg) == GenThrowFrom(s, P[s], msg)

Gen(s, pc) == P[s].pc = pc

\* worker.ts:89-93  await job.updateProgress(40) and the call of
\* generateModels; ModelGenerator.ts:38-65  mkdir of the temp directory, the
\* synchronous profile, geometry, material and mesh construction, then
\* exportToGLB, which writes the GLB scratch file: one scene
ExportToGLB(s) ==
  /\ Gen(s, "export")
  /\ \/ /\ P[s].kind = "single"
        /\ Throw(s, Rejected)
        /\ UNCHANGED <<tempFiles, batch>>
     \/ /\ GenThrowFrom(s, [P[s] EXCEPT !.genCalls = @ + 1], Rejected)
        /\ UNCHANGED <<queue, tempFiles>>
     \/ \E size \in GlbSizes :
          /\ WriteFile(TempPath(P[s].frame, "glb"), [kind |-> "glb", size |-> size, scenes |-> 1])
          /\ P' = [P EXCEPT ![s] = [@ EXCEPT !.pc = "validate", !.fileSize = size,
                       !.genCalls = @ + 1,
                       !.wrote = @ \cup {TempPath(P[s].frame, "glb")}]]
          /\ UNCHANGED <<queue, batch>>
  /\ UNCHANGED <<nextId, paused, call, created, runs, frames, records, storage>>

\* validateGLB without the size test of GLBEexporter.ts:172.
validateGLBAnySize(files, filePath, max) ==
  IF filePath \notin DOMAIN files THEN FALSE
  ELSE IF files[filePath].kind # "glb" THEN FALSE
  ELSE IF files[filePath].scenes = 0 THEN FALSE
  ELSE TRUE
\* GLBEexporter.ts:167-192  validateGLB: false when stat throws (no file),
\* when the size is above the ceiling, when read throws (not a GLB), or when
\* the document has no scene
validateGLB(files, filePath, max) ==
  IF filePath \notin DOMAIN files THEN FALSE
  ELSE IF files[filePath].size > max * MB THEN FALSE
  ELSE IF files[filePath].kind # "glb" THEN FALSE
  ELSE IF files[filePath].scenes = 0 THEN FALSE
  ELSE TRUE

\* MayUpload without the test of ModelGenerator.ts:71: nothing throws.
MayUploadUnchecked(isValidGLB) == TRUE
\* ModelGenerator.ts:67-73  a GLB that fails validation throws
MayUpload(isValidGLB) == isValidGLB

ValidateGLB(s) ==
  /\ Gen(s, "validate")
  /\ LET isValidGLB == validateGLB(tempFiles, TempPath(P[s].frame, "glb"), maxSizeMB)
     IN IF MayUpload(isValidGLB)
        THEN /\ P' = [P EXCEPT ![s] = [@ EXCEPT !.pc = "uploadGLB", !.validated = isValidGLB]]
             /\ UNCHANGED batch
        ELSE GenThrow(s, "GLB file validation failed")
  /\ UNCHANGED <<queue, nextId, paused, call, created, runs, frames, records, storage, tempFiles>>

\* storage.uploadFile reads the local file and stores it under the key; it
\* rejects when the file cannot be read or the store fails.
Upload(path, key, contentType) ==
  /\ path \in DOMAIN tempFiles
  /\ storage' = (key :> [content |-> tempFiles[path].kind, contentType |-> contentType])
                   @@ storage

\* ModelGenerator.ts:75-77  upload of the GLB
UploadGLB(s) ==
  /\ Gen(s, "uploadGLB")
  /\ \/ /\ Upload(TempPath(P[s].frame, "glb"), StorageKey(P[s].frame.id, "glb"),
                  "model/gltf-binary")
        /\ P' = [P EXCEPT ![s] = [@ EXCEPT !.pc = "convAccess",
                     !.glbUrl = getPublicUrl(StorageKey(P[s].frame.id, "glb")),
                     !.uploads = Append(@, "glb")]]
        /\ UNCHANGED batch
     \/ GenThrow(s, Rejected) /\ UNCHANGED storage
  /\ UNCHANGED <<queue, nextId, paused, call, created, runs, frames, records, tempFiles>>

\* ------------------------------------------------------------ USDZConverter

\* The conversion methods of convertGLBToUSDZ, in the order of the code.
Methods == <<"usd_from_gltf", "blender", "python_usd">>

\* AfterMethod without the `if (!success)` guards: every method is invoked.
AfterMethodUnguarded(n, success) ==
  IF n = 1 THEN "blenderWrite"
  ELSE IF n = 2 THEN "pythonWrite"
  ELSE "convVerify"
\* Where convertGLBToUSDZ goes once method n has ended: each later method is
\* guarded by `if (!success)` (part_009:455, 466), then comes the check of
\* part_009:476.
AfterMethod(n, success) ==
  IF success THEN "convVerify"
  ELSE IF n = 1 THEN "blenderWrite"
  ELSE IF n = 2 THEN "pythonWrite"
  ELSE "convVerify"

\* The record of one invocation of a conversion method and of how it ended.
Invoked(n, result) == [method |-> Methods[n], result |-> result]
Ended(ok) == IF ok THEN "succeeded" ELSE "failed"

\* ToFallback without the catch of ModelGenerator.ts:90: the error leaves
\* generateModels.
ToFallbackUncaught(s) == GenThrow(s, Rejected)
\* convertGLBToUSDZ or the upload that follows it throws inside the try of
\* ModelGenerator.ts:84-90: the catch block falls back to createSimpleUSDZ.
ToFallback(s) ==
  /\ P' = [P EXCEPT ![s] = [@ EXCEPT !.pc = "fallbackCopy", !.tried = <<>>, !.success = FALSE]]
  /\ UNCHANGED batch

\* The file a converter leaves at usdzPath.
Converted == [kind |-> "usdz", size |-> 1, scenes |-> 1]

\* part_009:440  fs.access(glbPath), then method 1 is invoked
ConvAccess(s) ==
  /\ Gen(s, "convAccess")
  /\ IF TempPath(P[s].frame, "glb") \in DOMAIN tempFiles
     THEN P' = [P EXCEPT ![s] = [@ EXCEPT !.pc = "usdFromGltf"]] /\ UNCHANGED batch
     ELSE ToFallback(s)
  /\ UNCHANGED <<queue, nextId, paused, call, created, runs, frames, records, storage, tempFiles>>

\* part_009:446-452, 501-504  method 1: usd_from_gltf
ConvertWithUSDFromGLTF(s) ==
  /\ Gen(s, "usdFromGltf")
  /\ \E ok \in BOOLEAN :
       /\ P' = [P EXCEPT ![s] = [@ EXCEPT !.pc = AfterMethod(1, ok), !.success = ok,
                    !.tried = Append(@, Invoked(1, Ended(ok))),
                    !.wrote = IF ok THEN @ \cup {TempPath(P[s].frame, "usdz")} ELSE @]]
       /\ IF ok THEN WriteFile(TempPath(P[s].frame, "usdz"), Converted)
          ELSE UNCHANGED tempFiles
  /\ UNCHANGED <<queue, nextId, paused, call, created, runs, frames, records, storage, batch>>

\* part_009:532-533, 582-583  a script method is invoked: its script is written
WriteScript(s, pc, n, script, next) ==
  /\ Gen(s, pc)
  /\ \E ok \in BOOLEAN :
       /\ P' = [P EXCEPT ![s] = [@ EXCEPT !.pc = IF ok THEN next ELSE AfterMethod(n, FALSE),
                    !.tried = Append(@, Invoked(n, IF ok THEN "running" ELSE Ended(FALSE)))]]
       /\ IF ok THEN WriteFile(ScriptPath(script), [kind |-> "script", size |-> 1, scenes |-> 0])
          ELSE UNCHANGED tempFiles
  /\ UNCHANGED <<queue, nextId, paused, call, created, runs, frames, records, storage, batch>>

\* part_009:535-537, 585-587  the tool runs the script: it needs the script
\* file, and on success leaves the converted file
ExecScript(s, pc, script, next) ==
  /\ Gen(s, pc)
  /\ \E ok \in BOOLEAN :
       LET ran == ok /\ ScriptPath(script) \in DOMAIN tempFiles
       IN /\ P' = [P EXCEPT ![s] = [@ EXCEPT !.pc = next, !.success = ran,
                       !.tried[Len(P[s].tried)].result = Ended(ran),
                       !.wrote = IF ran THEN @ \cup {TempPath(P[s].frame, "usdz")} ELSE @]]
          /\ IF ran THEN WriteFile(TempPath(P[s].frame, "usdz"), Converted)
             ELSE UNCHANGED tempFiles
  /\ UNCHANGED <<queue, nextId, paused, call, created, runs, frames, records, storage, batch>>

\* part_009:538-541, 588-590  finally: the script is unlinked, errors ignored
UnlinkScript(s, pc, n, script) ==
  /\ Gen(s, pc)
  /\ P' = [P EXCEPT ![s] = [@ EXCEPT !.pc = AfterMethod(n, P[s].success)]]
  /\ Unlink(ScriptPath(script))
  /\ UNCHANGED <<queue, nextId, paused, call, created, runs, frames, records, storage, batch>>

\* part_009:455-463, 509-542  method 2: Blender
BlenderWrite(s) == WriteScript(s, "blenderWrite", 2, "convert_to_usdz.py", "blenderExec")
BlenderExec(s) == ExecScript(s, "blenderExec", "convert_to_usdz.py", "blenderUnlink")
BlenderUnlink(s) == UnlinkScript(s, "blenderUnlink", 2, "convert_to_usdz.py")

\* part_009:466-474, 547-591  method 3: Python USD
PythonWrite(s) == WriteScript(s, "pythonWrite", 3, "convert_usd.py", "pythonExec")
PythonExec(s) == ExecScript(s, "pythonExec", "convert_usd.py", "pythonUnlink")
PythonUnlink(s) == UnlinkScript(s, "pythonUnlink", 3, "convert_usd.py")

\* part_009:476-491  no method succeeded: throw; else the output is accessed
\* and stat'ed, and convertGLBToUSDZ returns
ConvVerify(s) ==
  /\ Gen(s, "convVerify")
  /\ IF P[s].success /\ TempPath(P[s].frame, "usdz") \in DOMAIN tempFiles
     THEN P' = [P EXCEPT ![s] = [@ EXCEPT !.pc = "uploadUSDZ", !.usdzBy = "converter",
                                          !.tried = <<>>, !.success = FALSE]]
          /\ UNCHANGED batch
     ELSE ToFallback(s)
  /\ UNCHANGED <<queue, nextId, paused, call, created, runs, frames, records, storage, tempFiles>>

\* ------------------------------------------------- ModelGenerator.ts, continued

\* ModelGenerator.ts:87-89  upload of the converted USDZ; a rejection is
\* caught at ModelGenerator.ts:90 like a failed conversion
UploadUSDZ(s) ==
  /\ Gen(s, "uploadUSDZ")
  /\ \/ /\ Upload(TempPath(P[s].frame, "usdz"), StorageKey(P[s].frame.id, "usdz"),
                  "model/vnd.usdz+zip")
        /\ P' = [P EXCEPT ![s] = [@ EXCEPT !.pc = "cleanupGlb",
                     !.usdzUrl = getPublicUrl(StorageKey(P[s].frame.id, "usdz")),
                     !.uploads = Append(@, "usdz")]]
        /\ UNCHANGED batch
     \/ ToFallback(s) /\ UNCHANGED storage
  /\ UNCHANGED <<queue, nextId, paused, call, created, runs, frames, records, tempFiles>>

\* ModelGenerator.ts:93, part_009:597-609  createSimpleUSDZ copies the GLB to
\* the USDZ path; a rejection leaves generateModels
CreateSimpleUSDZ(s) ==
  /\ Gen(s, "fallbackCopy")
  /\ \/ /\ TempPath(P[s].frame, "glb") \in DOMAIN tempFiles
        /\ WriteFile(TempPath(P[s].frame, "usdz"), tempFiles[TempPath(P[s].frame, "glb")])
        /\ P' = [P EXCEPT ![s] = [@ EXCEPT !.pc = "fallbackUpload", !.usdzBy = "copy",
                                           !.wrote = @ \cup {TempPath(P[s].frame, "usdz")}]]
        /\ UNCHANGED batch
     \/ GenThrow(s, Rejected) /\ UNCHANGED tempFiles
  /\ UNCHANGED <<queue, nextId, paused, call, created, runs, frames, records, storage>>

\* ModelGenerator.ts:94-95  upload of the copy
UploadFallback(s) ==
  /\ Gen(s, "fallbackUpload")
  /\ \/ /\ Upload(TempPath(P[s].frame, "usdz"), StorageKey(P[s].frame.id, "usdz"),
                  "model/vnd.usdz+zip")
        /\ P' = [P EXCEPT ![s] = [@ EXCEPT !.pc = "cleanupGlb",
                     !.usdzUrl = getPublicUrl(StorageKey(P[s].frame.id, "usdz")),
                     !.uploads = Append(@, "usdz")]]
        /\ UNCHANGED batch
     \/ GenThrow(s, Rejected) /\ UNCHANGED storage
  /\ UNCHANGED <<queue, nextId, paused, call, created, runs, frames, records, tempFiles>>

\* ModelGenerator.ts:98-99, 155-164  cleanupTempFiles: the GLB is unlinked, a
\* failure is logged and ignored
CleanupGlb(s) ==
  /\ Gen(s, "cleanupGlb")
  /\ P' = [P EXCEPT ![s] = [@ EXCEPT !.pc = "cleanupUsdz"]]
  /\ Unlink(TempPath(P[s].frame, "glb"))
  /\ UNCHANGED <<queue, nextId, paused, call, created, runs, frames, records, storage, batch>>

\* Date.now() - startTime (ModelGenerator.ts:101), in milliseconds: none, or
\* some.
ElapsedTimes == {0, 1}

\* ModelGenerator.ts:99-111  the USDZ is unlinked likewise, and generateModels
\* returns its result to worker.ts:93 or worker.ts:169
CleanupUsdz(s) ==
  /\ Gen(s, "cleanupUsdz")
  /\ \E generationTime \in ElapsedTimes :
       P' = [P EXCEPT ![s] = [@ EXCEPT !.genEnd = "returned", !.elapsed = generationTime,
                !.pc = IF P[s].kind = "single" THEN "updateFrame" ELSE "batchUpdateFrame"]]
  /\ Unlink(TempPath(P[s].frame, "usdz"))
  /\ UNCHANGED <<queue, nextId, paused, call, created, runs, frames, records, storage, batch>>

\* ModelGenerator.ts:105-111  the GenerationResult generateModels returns
GenerationResult(slot) ==
  [frame_id |-> slot.frame.id, glb_url |-> slot.glbUrl, usdz_url |-> slot.usdzUrl,
   file_size |-> slot.fileSize, generation_time_ms |-> slot.elapsed]

\* ------------------------------------------------------ worker.ts, continued

\* An await inside the try block of worker.ts:91-121 rejects: control is in
\* the catch block of worker.ts:122.
Caught(s, msg) == Goto(s, [OutOfScope(P[s]) EXCEPT !.pc = "catch", !.err = msg])

\* updateFrameModels matching no row: the table stays as it is.
updateFrameModelsNoRow(table, f, glb, usdz) == table
\* UPDATE frames SET model_glb_url = $1, model_usdz_url = $2, ... WHERE id = $4
updateFrameModels(table, f, glb, usdz) ==
  [g \in DOMAIN table |->
     IF g = f /\ table[g] # NoFrame THEN FrameRow(f, glb, usdz) ELSE table[g]]

\* worker.ts:95-103  await job.updateProgress(80), then db.updateFrameModels
UpdateFrame(s) ==
  /\ Single(s, "updateFrame")
  /\ \E progressed \in BOOLEAN, ok \in BOOLEAN :
       IF ~progressed \/ ~ok THEN Caught(s, Rejected)
       ELSE /\ frames' = updateFrameModels(frames, P[s].frame.id, P[s].glbUrl, P[s].usdzUrl)
            /\ P' = [P EXCEPT ![s] = [@ EXCEPT !.pc = "setCompleted", !.updatedFrame = TRUE]]
            /\ UNCHANGED <<queue, nextId, paused, call, created, runs, records, storage, tempFiles, batch>>

\* worker.ts:105-110  db.updateGenerationJobStatus(jobId, 'completed', ...)
SetCompleted(s) ==
  /\ Single(s, "setCompleted")
  /\ \E ok \in BOOLEAN :
       IF ~ok THEN Caught(s, Rejected)
       ELSE /\ records' = [records EXCEPT ![P[s].rec] =
                             SetStatus(@, "completed", GenerationResult(P[s]).glb_url,
                                       GenerationResult(P[s]).usdz_url,
                                       <<GenerationResult(P[s]).file_size>>,
                                       <<GenerationResult(P[s]).generation_time_ms>>, "")]
            /\ P' = [P EXCEPT ![s] = [@ EXCEPT !.pc = "progress100"]]
            /\ UNCHANGED <<queue, nextId, paused, call, created, runs, frames, storage, tempFiles, batch>>

\* The value returned at worker.ts:114-121.
Completed(slot) ==
  [status |-> "completed", glbUrl |-> GenerationResult(slot).glb_url,
   usdzUrl |-> GenerationResult(slot).usdz_url,
   fileSize |-> <<GenerationResult(slot).file_size>>,
   generationTimeMs |-> <<GenerationResult(slot).generation_time_ms>>]

\* worker.ts:112-121  await job.updateProgress(100), then the result is returned
Progress100(s) ==
  /\ Single(s, "progress100")
  /\ \E ok \in BOOLEAN :
       IF ~ok THEN Caught(s, Rejected)
       ELSE /\ Return(s, Completed(P[s]))
            /\ UNCHANGED <<nextId, paused, call, created, runs, frames, records, storage, tempFiles, batch>>

\* worker.ts:122-128  the catch block: the row is set to failed with the
\* error's message and the error is rethrown; when that update rejects, its
\* error is thrown instead
Catch(s) ==
  /\ Single(s, "catch")
  /\ \E ok \in BOOLEAN :
       IF ok
       THEN /\ records' = [records EXCEPT ![P[s].rec] = SetStatus(@, "failed", NoUrl, NoUrl, Absent, Absent, P[s].err)]
            /\ Throw(s, P[s].err)
            /\ UNCHANGED <<nextId, paused, call, created, runs, frames, storage, tempFiles, batch>>
       ELSE Reject(s, Rejected)

\* ------------------------------------------- worker.ts, the batch processor

Batch(s, pc) == P[s].kind = "batch" /\ P[s].pc = pc

\* worker.ts:140-145  the loop takes frameIds[i] and awaits
\* job.updateProgress: outside the try block, a rejection leaves the processor
BatchProgress(s) ==
  /\ Batch(s, "batchProgress")
  /\ \E ok \in BOOLEAN :
       IF ok THEN /\ P' = [P EXCEPT ![s] = [@ EXCEPT !.pc = "batchGetFrame"]]
                  /\ UNCHANGED batch
       ELSE /\ P' = [P EXCEPT ![s] = IdleSlot]
            /\ batch' = [batch EXCEPT !.pc = "raised", !.errors = @ \cup {batch.i}]
  /\ UNCHANGED <<queue, nextId, paused, call, created, runs, frames, records, storage, tempFiles>>

\* worker.ts:147-166  db.getFrame inside the try block, the not_found outcome
\* for a null frame and the skip check
BatchGetFrame(s) ==
  /\ Batch(s, "batchGetFrame")
  /\ LET f == batch.frameIds[batch.i]
         frame == frames[f]
     IN \E ok \in BOOLEAN :
          IF ~ok THEN BatchCatch(s, f, Rejected)
          ELSE IF frame = NoFrame
          THEN BatchPush(s, Outcome(f, "not_found", NoUrl, NoUrl, ""))
          ELSE IF ModelsExist(batch.forceRegenerate, frame)
          THEN BatchPush(s, Outcome(f, "skipped", frame.model_glb_url, frame.model_usdz_url, ""))
          ELSE /\ P' = [P EXCEPT ![s] = [@ EXCEPT !.pc = "export", !.frame = frame]]
               /\ UNCHANGED batch
  /\ UNCHANGED <<queue, nextId, paused, call, created, runs, frames, records, storage, tempFiles>>

\* worker.ts:171-184  db.updateFrameModels, then the completed outcome
BatchUpdateFrame(s) ==
  /\ Batch(s, "batchUpdateFrame")
  /\ \E ok \in BOOLEAN :
       IF ~ok THEN BatchCatch(s, P[s].frame.id, Rejected) /\ UNCHANGED frames
       ELSE /\ frames' = updateFrameModels(frames, P[s].frame.id, P[s].glbUrl, P[s].usdzUrl)
            /\ BatchPush(s, Outcome(P[s].frame.id, "completed", P[s].glbUrl, P[s].usdzUrl, ""))
  /\ UNCHANGED <<queue, nextId, paused, call, created, runs, records, storage, tempFiles>>

\* worker.ts:195-204  the aggregate the batch processor returns
CountOf(results, status) == Cardinality({k \in 1..Len(results) : results[k].status = status})
BatchResult(b) ==
  [total |-> Len(b.frameIds), successful |-> CountOf(b.results, "completed"),
   failed |-> CountOf(b.results, "failed"), skipped |-> CountOf(b.results, "skipped"),
   results |-> b.results]

\* ------------------------------------------------------------ specification

Single1(s) ==
  \/ GetFrame(s) \/ CreateJob(s) \/ SetProcessing(s)

Generate1(s) ==
  \/ ExportToGLB(s) \/ ValidateGLB(s) \/ UploadGLB(s)

Convert(s) ==
  \/ ConvAccess(s) \/ ConvertWithUSDFromGLTF(s)
  \/ BlenderWrite(s) \/ BlenderExec(s) \/ BlenderUnlink(s)
  \/ PythonWrite(s) \/ PythonExec(s) \/ PythonUnlink(s)
  \/ ConvVerify(s)

Generate2(s) ==
  \/ UploadUSDZ(s) \/ CreateSimpleUSDZ(s) \/ UploadFallback(s)
  \/ CleanupGlb(s) \/ CleanupUsdz(s)

Single2(s) ==
  \/ UpdateFrame(s) \/ SetCompleted(s) \/ Progress100(s) \/ Catch(s)

\* The system with at most maxJobs jobs added and maxRuns processor runs.
NextWithin(maxJobs, maxRuns) ==
  \/ \E f \in FrameIds, o \in Options :
       addGenerationJob(f, o.forceRegenerate, o.priority, maxJobs)
  \/ \E n \in 1..MaxBatch : \E fids \in [1..n -> FrameIds], force \in BatchOptions :
       addBatchGenerationJob(fids, force, maxJobs)
  \/ \E j \in DOMAIN queue : RemoveTerminal(j) \/ Promote(j)
  \/ \E j \in DOMAIN queue : Pick(j, maxRuns)
  \/ \E s \in JobIds : Single1(s) \/ Generate1(s) \/ Convert(s) \/ Generate2(s) \/ Single2(s)

Next == NextWithin(MaxJobs, MaxRuns)

Spec == Init /\ [][Next]_vars

\* One job through all the attempts the queue allows it.
NextRetry == NextWithin(MaxRetryJobs, MaxRetryRuns)

SpecRetry == Init /\ [][NextRetry]_vars

\* The steps of the processor run of job s.
Proc(s) == Single1(s) \/ Generate1(s) \/ Convert(s) \/ Generate2(s) \/ Single2(s)

\* The jobs of SpecLive through all their attempts, with the queue paused and
\* resumed at any time.
NextLive ==
  \/ NextWithin(MaxLiveJobs, MaxLiveJobs * attempts)
  \/ pauseQueue
  \/ resumeQueue

\* Every await of a processor returns or throws; a backoff delay runs out; a
\* worker with a free slot that keeps finding a waiting job on an unpaused queue
\* takes one; a paused queue is resumed.
Fairness ==
  /\ \A s \in JobIds : WF_vars(Proc(s))
  /\ WF_vars(\E j \in DOMAIN queue : Promote(j))
  /\ SF_vars(\E j \in DOMAIN queue : Pick(j, MaxLiveJobs * attempts))
  /\ WF_vars(resumeQueue)

SpecLive == Init /\ [][NextLive]_vars /\ Fairness

\* ------------------------------------------------ worker.ts, the worker pool

\* Jobs ever added, and processor runs ever started, in one behaviour of
\* SpecPool: one more than the worker has slots.
MaxPoolJobs == 3
MaxPoolRuns == 3

\* The frame ids of the batch submissions of SpecPool: frames that are not in
\* the table, whose processor runs end at getFrame.
PoolBatchFrames == {"f2"}

\* More jobs than the worker has slots: single submissions for any frame and
\* batch submissions for missing frames.
NextPool ==
  \/ \E f \in FrameIds, o \in Options :
       addGenerationJob(f, o.forceRegenerate, o.priority, MaxPoolJobs)
  \/ \E n \in 1..MaxBatch : \E fids \in [1..n -> PoolBatchFrames], force \in BatchOptions :
       addBatchGenerationJob(fids, force, MaxPoolJobs)
  \/ \E j \in DOMAIN queue : RemoveTerminal(j) \/ Promote(j)
  \/ \E j \in DOMAIN queue : Pick(j, MaxPoolRuns)
  \/ \E s \in JobIds : Proc(s)

SpecPool == Init /\ [][NextPool]_vars

\* ------------------------------------------------ queue.ts, resubmission

\* Jobs ever added, and processor runs ever started, in one behaviour of
\* SpecDedup: one job through all its attempts.
MaxDedupJobs == 1
MaxDedupRuns == 3

\* addGenerationJob(frameId, options) for a frame whose job id the queue
\* holds; call keeps the arguments and the state the held job was in.
addGenerationJobAgain(f, force, prio) ==
  /\ FrameJobId(f) \in DOMAIN queue
  /\ queue' = AddWithId(queue, FrameJobId(f), NewJob(FrameJobId(f), f, force, <<prio>>))
  /\ call' = [fn |-> "addGenerationJob", done |-> TRUE, frameId |-> f,
              forceRegenerate |-> force, priority |-> prio,
              held |-> queue[FrameJobId(f)].state]
  /\ UNCHANGED <<nextId, paused, created, runs, frames, records, storage, tempFiles, P, batch>>

NextDedup ==
  \/ NextWithin(MaxDedupJobs, MaxDedupRuns)
  \/ \E f \in FrameIds, o \in Options : addGenerationJobAgain(f, o.forceRegenerate, o.priority)

SpecDedup == Init /\ [][NextDedup]_vars

\* ------------------------------------------------ worker.ts, shutdown

\* Jobs ever added, and processor runs ever started, in one behaviour of
\* SpecShutdown.
MaxShutdownJobs == 2
MaxShutdownRuns == 2

\* Drained when worker.close(true) is called: it waits for nothing.
DrainedForce(active) == TRUE
\* worker.close() resolves once the processors that are running have ended.
Drained(active) == active = {}

\* worker.ts:216-217  SIGTERM or SIGINT: gracefulShutdown starts and calls
\* worker.close(), after which the worker takes no job
Signal ==
  /\ call.fn = "none"
  /\ call' = [fn |-> "gracefulShutdown", done |-> FALSE, pc |-> "close",
              connection |-> "open", inFlight |-> Active]
  /\ UNCHANGED <<queue, nextId, paused, created, runs, frames, records, storage, tempFiles, P,
                 batch>>

Shutdown(pc) == call.fn = "gracefulShutdown" /\ ~call.done /\ call.pc = pc

\* worker.ts:210  await worker.close() resolves
WorkerClosed ==
  /\ Shutdown("close")
  /\ Drained(Active)
  /\ call' = [call EXCEPT !.pc = "quit"]
  /\ UNCHANGED <<queue, nextId, paused, created, runs, frames, records, storage, tempFiles, P,
                 batch>>

\* worker.ts:211  await connection.quit()
ConnectionQuit ==
  /\ Shutdown("quit")
  /\ call' = [call EXCEPT !.pc = "exit", !.connection = "quit"]
  /\ UNCHANGED <<queue, nextId, paused, created, runs, frames, records, storage, tempFiles, P,
                 batch>>

\* worker.ts:213  process.exit(0)
ProcessExit ==
  /\ Shutdown("exit")
  /\ call' = [call EXCEPT !.done = TRUE]
  /\ UNCHANGED <<queue, nextId, paused, created, runs, frames, records, storage, tempFiles, P,
                 batch>>

NextShutdown ==
  \/ NextWithin(MaxShutdownJobs, MaxShutdownRuns)
  \/ Signal
  \/ WorkerClosed
  \/ ConnectionQuit
  \/ ProcessExit

SpecShutdown == Init /\ [][NextShutdown]_vars

\* ------------------------------------------------ USDZConverter, tools that hang

\* Jobs ever added, and processor runs ever started, in one behaviour of
\* SpecConvert.
MaxConvertJobs == 1
MaxConvertRuns == 1

\* The awaits of execAsync, by the processor position that makes them, and
\* the position of a processor whose child process does not exit.
Hung == [usdFromGltf |-> "usdFromGltfHung", blenderExec |-> "blenderExecHung",
         pythonExec |-> "pythonExecHung"]

\* The timeout option each execAsync call passes, in seconds: none at
\* part_009:503, { timeout: 60000 } at part_009:537 and 587.
ExecTimeout == [usdFromGltf |-> Absent, blenderExec |-> <<60>>, pythonExec |-> <<60>>]

\* Where a rejected execAsync leaves the method: the finally block of the
\* script methods, the catch of part_009:450 for usd_from_gltf.
AfterExec == [usdFromGltf |-> AfterMethod(1, FALSE), blenderExec |-> "blenderUnlink",
              pythonExec |-> "pythonUnlink"]

\* The child process that execAsync started neither exits nor fails.
ToolHangs(s) ==
  /\ P[s].pc \in DOMAIN Hung
  /\ P' = [P EXCEPT ![s] = [@ EXCEPT !.pc = Hung[P[s].pc]]]
  /\ UNCHANGED <<queue, nextId, paused, call, created, runs, frames, records, storage, tempFiles,
                 batch>>

\* child_process.exec with a timeout kills the child when the time is up and
\* the await rejects; without the option nothing ends the await.
ExecTimedOut(s) ==
  /\ \E pc \in DOMAIN Hung :
       /\ Gen(s, Hung[pc])
       /\ ExecTimeout[pc] # Absent
       /\ P' = [P EXCEPT ![s] = [@ EXCEPT !.pc = AfterExec[pc], !.success = FALSE,
                    !.tried[Len(P[s].tried)].result = Ended(FALSE)]]
  /\ UNCHANGED <<queue, nextId, paused, call, created, runs, frames, records, storage, tempFiles,
                 batch>>

NextConvert ==
  \/ NextWithin(MaxConvertJobs, MaxConvertRuns)
  \/ \E s \in JobIds : ToolHangs(s)
  \/ \E s \in JobIds : ExecTimedOut(s)

\* Every await of a processor other than a hung execAsync returns or throws,
\* and a hung execAsync with a timeout rejects.
FairnessConvert == \A s \in JobIds : WF_vars(Proc(s) \/ ExecTimedOut(s))

SpecConvert == Init /\ [][NextConvert]_vars /\ FairnessConvert

\* ------------------------------------------------ validateGLB on its own

\* Largest ceiling, in MB, validateGLB is called with.
MaxCeiling == 2
\* Largest number of scenes in a file validateGLB is called on.
MaxScenes == 2

\* File sizes around each ceiling, and none.
ValidatedSizes ==
  {0} \cup UNION {{m * MB - 1, m * MB, m * MB + 1} : m \in 1..MaxCeiling + 1}

\* What may be at the path validateGLB is given.
ValidatedFiles ==
  [kind : {"glb", "usdz"}, size : ValidatedSizes, scenes : 0..MaxScenes]

\* glbExporter.validateGLB(filePath, maxSizeMB) is called on a temp directory
\* that holds any file at filePath, or none.
InitValidate ==
  /\ queue = <<>>
  /\ nextId = 1
  /\ paused = FALSE
  /\ created = 0
  /\ runs = 0
  /\ frames = InitialFrames
  /\ records = <<>>
  /\ storage = <<>>
  /\ P = [j \in JobIds |-> IdleSlot]
  /\ batch = NoBatch
  /\ \E m \in 1..MaxCeiling :
       call = [fn |-> "validateGLB", done |-> FALSE, result |-> FALSE,
               filePath |-> TempPath(frames["f1"], "glb"), maxSizeMB |-> m]
  /\ \/ tempFiles = <<>>
     \/ \E file \in ValidatedFiles : tempFiles = (TempPath(frames["f1"], "glb") :> file)

\* The call returns.
CallValidateGLB ==
  /\ call.fn = "validateGLB"
  /\ ~call.done
  /\ call' = [call EXCEPT !.done = TRUE,
                 !.result = validateGLB(tempFiles, call.filePath, call.maxSizeMB)]
  /\ UNCHANGED <<queue, nextId, paused, created, runs, frames, records, storage, tempFiles, P,
                 batch>>

SpecValidate == InitValidate /\ [][CallValidateGLB]_vars

\* ------------------------------------- generateFrameGeometry on its own

\* Largest molding width, molding depth, rabbet dimension and outer dimension,
\* in inches, generateFrameGeometry is called with.
MaxWidth == 2
MaxDepth == 3
MaxRabbet == 1
MaxOuter == 2

\* GeometryGenerator.INCHES_TO_METERS, 0.0254, in units of 0.1 mm.
INCHES_TO_METERS == 254

\* enum ProfileType
ProfileTypes == {"flat", "stepped", "ornate", "float", "shadowbox", "canvas_wrap"}
\* Values of profile.type outside the enum: none given, and an unknown name.
OtherTypes == {"", "modern"}

\* The profiles generateFrameGeometry is called with; an absent rabbet
\* dimension is 0, which the test of ModelGenerator.ts:243 treats alike.
Profiles ==
  [type : ProfileTypes \cup OtherTypes, width : 1..MaxWidth, depth : 1..MaxDepth,
   rabbet_width : 0..MaxRabbet, rabbet_depth : 0..MaxRabbet]

\* generateFlatProfile: the cross-section, its hole when the profile has a
\* rabbet, and the rectangle the four sides are extruded along.
generateFlatProfile(profile, outerWidth, outerHeight) ==
  LET frameWidth == profile.width * INCHES_TO_METERS
      frameDepth == profile.depth * INCHES_TO_METERS
      rabbitWidth == profile.rabbet_width * INCHES_TO_METERS
      rabbitDepth == profile.rabbet_depth * INCHES_TO_METERS
      offset == (frameWidth - rabbitWidth) \div 2
  IN [generator |-> "flat",
      shape |-> [frameWidth |-> frameWidth, frameDepth |-> frameDepth],
      holes |-> IF profile.rabbet_width # 0 /\ profile.rabbet_depth # 0
                THEN <<[from |-> <<offset, frameDepth - rabbitDepth>>,
                        to |-> <<offset + rabbitWidth, frameDepth>>]>>
                ELSE <<>>,
      outerW |-> outerWidth * INCHES_TO_METERS,
      outerH |-> outerHeight * INCHES_TO_METERS]

\* The generators of the other profile types, by what they are given.
generateOtherProfile(generator, profile, outerWidth, outerHeight) ==
  [generator |-> generator, profile |-> profile,
   outerW |-> outerWidth * INCHES_TO_METERS, outerH |-> outerHeight * INCHES_TO_METERS]

\* generateShadowBoxProfile with the profile passed on as it is.
generateShadowBoxProfileAsIs(profile, outerWidth, outerHeight) ==
  generateFlatProfile(profile, outerWidth, outerHeight)
\* const deepProfile = { ...profile, depth: Math.max(profile.depth, 2) }
generateShadowBoxProfile(profile, outerWidth, outerHeight) ==
  LET deepProfile == [profile EXCEPT !.depth = IF profile.depth >= 2 THEN profile.depth ELSE 2]
  IN generateFlatProfile(deepProfile, outerWidth, outerHeight)

\* switch (profile.type)
generateFrameGeometry(profile, outerWidth, outerHeight) ==
  CASE profile.type = "flat" -> generateFlatProfile(profile, outerWidth, outerHeight)
    [] profile.type = "stepped" -> generateOtherProfile("stepped", profile, outerWidth, outerHeight)
    [] profile.type = "float" -> generateOtherProfile("float", profile, outerWidth, outerHeight)
    [] profile.type = "ornate" -> generateOtherProfile("ornate", profile, outerWidth, outerHeight)
    [] profile.type = "shadowbox" -> generateShadowBoxProfile(profile, outerWidth, outerHeight)
    [] profile.type = "canvas_wrap" ->
         generateOtherProfile("canvas_wrap", profile, outerWidth, outerHeight)
    [] OTHER -> generateFlatProfile(profile, outerWidth, outerHeight)

\* generateFrameGeometry(profile, outerWidth, outerHeight) is called.
InitGeometry ==
  /\ queue = <<>>
  /\ nextId = 1
  /\ paused = FALSE
  /\ created = 0
  /\ runs = 0
  /\ frames = InitialFrames
  /\ records = <<>>
  /\ storage = <<>>
  /\ tempFiles = <<>>
  /\ P = [j \in JobIds |-> IdleSlot]
  /\ batch = NoBatch
  /\ \E profile \in Profiles, w \in 1..MaxOuter, h \in 1..MaxOuter :
       call = [fn |-> "generateFrameGeometry", done |-> FALSE, result |-> <<>>,
               profile |-> profile, outerWidth |-> w, outerHeight |-> h]

\* The call returns.
CallGenerateFrameGeometry ==
  /\ call.fn = "generateFrameGeometry"
  /\ ~call.done
  /\ call' = [call EXCEPT !.done = TRUE,
                 !.result = generateFrameGeometry(call.profile, call.outerWidth,
                                                  call.outerHeight)]
  /\ UNCHANGED <<queue, nextId, paused, created, runs, frames, records, storage, tempFiles, P,
                 batch>>

SpecGeometry == InitGeometry /\ [][CallGenerateFrameGeometry]_vars

\* ------------------------------------------- mergeGeometries on its own

\* Most vertices one per-edge geometry has.
MaxVertices == 2
\* Most indices one per-edge geometry has.
MaxIndices == 2

\* The four sides generateFlatProfile and the other profiles extrude.
Edges == <<"top", "right", "bottom", "left">>

\* The position array of the geometry of edge k with n vertices: 3 numbers per
\* vertex, here its own place in the input.
PositionArray(k, n) == [i \in 1..3 * n |-> 100 * k + i]

\* The per-edge geometries mergeGeometries may be given for edge k: any vertex
\* count, no index (geo.index null) or any index array over its own vertices.
EdgeGeometries(k) ==
  UNION {
    {[count |-> n, position |-> PositionArray(k, n), hasIndex |-> FALSE, index |-> <<>>]}
    \cup {[count |-> n, position |-> PositionArray(k, n), hasIndex |-> TRUE, index |-> ix] :
            ix \in UNION {[1..l -> 0..n - 1] : l \in 0..MaxIndices}}
    : n \in 0..MaxVertices}

\* ModelGenerator.ts:536-541  totalVertices and totalIndices
RECURSIVE TotalVertices(_)
TotalVertices(geometries) ==
  IF geometries = <<>> THEN 0
  ELSE Head(geometries).count + TotalVertices(Tail(geometries))

RECURSIVE TotalIndices(_)
TotalIndices(geometries) ==
  IF geometries = <<>> THEN 0
  ELSE (IF Head(geometries).hasIndex THEN Len(Head(geometries).index) ELSE 0)
       + TotalIndices(Tail(geometries))

\* new Float32Array(n), new Uint32Array(n): n zeroes
Zeroes(n) == [i \in 1..n |-> 0]

\* typedArray.set(source, offset)
SetAt(array, source, offset) ==
  [i \in 1..Len(array) |->
     IF i > offset /\ i <= offset + Len(source) THEN source[i - offset] ELSE array[i]]

\* MergedIndex without the vertex base.
MergedIndexNoBase(index, baseVertex) == index
\* ModelGenerator.ts:574  indices[indexOffset + i] = indexArray[i] + baseVertex,
\* stored in a Uint32Array, which holds every sum of the vertex counts here
MergedIndex(index, baseVertex) == index + baseVertex

\* ModelGenerator.ts:553-581  the second forEach, from the geometry in hand on
RECURSIVE MergeEach(_, _)
MergeEach(geometries, m) ==
  IF geometries = <<>> THEN m
  ELSE LET geo == Head(geometries)
           shifted == [i \in 1..Len(geo.index) |-> MergedIndex(geo.index[i], m.baseVertex)]
       IN MergeEach(Tail(geometries),
            [positions |-> SetAt(m.positions, geo.position, m.vertexOffset * 3),
             indices |-> IF geo.hasIndex THEN SetAt(m.indices, shifted, m.indexOffset)
                         ELSE m.indices,
             indexOffset |-> IF geo.hasIndex THEN m.indexOffset + Len(geo.index)
                             ELSE m.indexOffset,
             vertexOffset |-> m.vertexOffset + geo.count,
             baseVertex |-> m.baseVertex + geo.count])

\* ModelGenerator.ts:529-591  mergeGeometries: the merged geometry's position
\* attribute (itemSize 3) and index
mergeGeometries(geometries) ==
  LET m == MergeEach(geometries,
             [positions |-> Zeroes(TotalVertices(geometries) * 3),
              indices |-> Zeroes(TotalIndices(geometries)),
              vertexOffset |-> 0, indexOffset |-> 0, baseVertex |-> 0])
  IN [count |-> Len(m.positions) \div 3, position |-> m.positions, hasIndex |-> TRUE,
      index |-> m.indices]

\* mergeGeometries(geometries) is called on one geometry per edge.
InitMerge ==
  /\ queue = <<>>
  /\ nextId = 1
  /\ paused = FALSE
  /\ created = 0
  /\ runs = 0
  /\ frames = InitialFrames
  /\ records = <<>>
  /\ storage = <<>>
  /\ tempFiles = <<>>
  /\ P = [j \in JobIds |-> IdleSlot]
  /\ batch = NoBatch
  /\ \E top \in EdgeGeometries(1), right \in EdgeGeometries(2),
        bottom \in EdgeGeometries(3), left \in EdgeGeometries(4) :
       call = [fn |-> "mergeGeometries", done |-> FALSE,
               geometries |-> <<top, right, bottom, left>>,
               merged |-> mergeGeometries(<<>>)]

\* The call returns.
CallMergeGeometries ==
  /\ call.fn = "mergeGeometries"
  /\ ~call.done
  /\ call' = [call EXCEPT !.done = TRUE, !.merged = mergeGeometries(call.geometries)]
  /\ UNCHANGED <<queue, nextId, paused, created, runs, frames, records, storage, tempFiles, P,
                 batch>>

SpecMerge == InitMerge /\ [][CallMergeGeometries]_vars

\* The batch processor on a job whose data is any frameIds array of up to
\* MaxBatch ids, over any frames table.
InitialRows(f) ==
  {NoFrame, FrameRow(f, NoUrl, NoUrl),
   FrameRow(f, getPublicUrl(StorageKey(f, "glb")), getPublicUrl(StorageKey(f, "usdz")))}

InitBatch ==
  /\ queue = <<>>
  /\ nextId = 1
  /\ paused = FALSE
  /\ call = NoCall
  /\ created = 0
  /\ runs = 0
  /\ frames \in {fr \in [FrameIds -> UNION {InitialRows(f) : f \in FrameIds}] :
                   \A f \in FrameIds : fr[f] \in InitialRows(f)}
  /\ records = <<>>
  /\ storage = <<>>
  /\ tempFiles = <<>>
  /\ \E n \in 1..MaxBatch : \E fids \in [1..n -> FrameIds], force \in BOOLEAN :
       batch = [NoBatch EXCEPT !.frameIds = fids, !.forceRegenerate = force, !.i = 1,
                               !.pc = "running"]
  /\ P = [j \in JobIds |-> IF j = BatchJobId
                            THEN [IdleSlot EXCEPT !.kind = "batch", !.pc = "batchProgress"]
                            ELSE IdleSlot]

NextBatch ==
  \E s \in {BatchJobId} :
    \/ BatchProgress(s) \/ BatchGetFrame(s) \/ BatchUpdateFrame(s)
    \/ Generate1(s) \/ Convert(s) \/ Generate2(s)

SpecBatch == InitBatch /\ [][NextBatch]_vars

\* ------------------------------------------------------------------ claims

\* The jobs of frame f that the queue holds in a non-terminal state.
PendingJobs(f) == {j \in DOMAIN queue : queue[j].frameId = f /\ queue[j].state \in NonTerminal}

\* C1: whatever sequence of single and batch submissions is made, the queue
\* holds at most one non-terminal job per frame id.
C1_OnePendingJobPerFrame == \A f \in FrameIds : Cardinality(PendingJobs(f)) <= 1

\* C2: a job is attempted at most `attempts` (3) times: the count of attempts
\* started and of attempts failed never exceeds 3, a job whose third attempt
\* has failed is in the failed state, and only such a job is.
C2_AtMostThreeAttempts ==
  \A j \in DOMAIN queue :
    /\ queue[j].attemptsStarted <= 3
    /\ queue[j].attemptsMade <= 3
    /\ queue[j].attemptsMade = 3 <=> queue[j].state = "failed"

\* A job whose third attempt has failed.
C2_ThirdAttemptFailed ==
  \E j \in DOMAIN queue :
    queue[j].attemptsStarted = 3 /\ queue[j].attemptsMade = 3 /\ queue[j].state = "failed"

\* C3: when a single job that is not forced has fetched a frame with both a
\* GLB and a USDZ URL, its run ends in that step: unless a call of the step
\* rejected, the job is completed with the skipped value carrying the frame's
\* URLs; either way generateModels is not called, no generation_jobs row is
\* inserted and nothing is uploaded.
C3_Step ==
  \A s \in DOMAIN queue :
    LET frame == frames[queue[s].frameId]
    IN (/\ Single(s, "getFrame")
        /\ ~queue[s].forceRegenerate
        /\ frame # NoFrame
        /\ frame.model_glb_url # NoUrl
        /\ frame.model_usdz_url # NoUrl
        /\ P'[s] # P[s])
       => /\ P'[s] = IdleSlot
          /\ records' = records
          /\ storage' = storage
          /\ tempFiles' = tempFiles
          /\ frames' = frames
          /\ \/ /\ queue'[s].state = "completed"
                /\ queue'[s].returnvalue =
                     [status |-> "skipped", glbUrl |-> frame.model_glb_url,
                      usdzUrl |-> frame.model_usdz_url, fileSize |-> Absent,
                      generationTimeMs |-> Absent]
             \/ /\ queue'[s].state \in {"delayed", "failed"}
                /\ queue'[s].failedReason = Rejected

C3_SkipsExistingModels == [][C3_Step]_vars

\* A job completed with the skipped value.
C3_JobSkipped ==
  \E j \in DOMAIN queue :
    /\ queue[j].state = "completed"
    /\ queue[j].returnvalue.status = "skipped"
    /\ ~queue[j].forceRegenerate

\* The indices of the batch's frame ids that have no row in the frames table.
Missing == {k \in 1..Len(batch.frameIds) : frames[batch.frameIds[k]] = NoFrame}

\* C4: a batch of which exactly one frame id does not exist never raises, and
\* returns exactly one not_found outcome, all others being completed, failed
\* or skipped.
C4_BatchNeverRaises ==
  Cardinality(Missing) = 1 =>
    /\ batch.pc # "raised"
    /\ batch.pc = "returned" =>
         /\ CountOf(batch.results, "not_found") = 1
         /\ BatchResult(batch).successful + BatchResult(batch).failed
              + BatchResult(batch).skipped = Len(batch.frameIds) - 1

\* C5: an error while frame i of a batch is processed is recorded as a failed
\* outcome of frame i and of no other, the frames after it are still
\* processed, and the results hold one outcome per frame id, in order.
C5_BatchIsolatesErrors ==
  /\ \A i \in batch.errors : i <= Len(batch.results) /\ batch.results[i].status = "failed"
  /\ \A k \in 1..Len(batch.results) :
       /\ batch.results[k].frameId = batch.frameIds[k]
       /\ batch.results[k].status = "failed" => k \in batch.errors
  /\ batch.pc \in {"none", "running", "returned"}
  /\ batch.pc = "returned" => Len(batch.results) = Len(batch.frameIds)

\* C6: a job whose frame getFrame does not find is failed for good after that
\* single attempt.
C6_NotFoundNotRetried ==
  \A j \in DOMAIN queue :
    queue[j].failedReason = "Frame not found" =>
      queue[j].state = "failed" /\ queue[j].attemptsStarted = 1

\* C7: a run has uploaded something only after validateGLB returned true for
\* its GLB, and a run whose GLB failed validation has uploaded nothing and has
\* not updated the frame row.
C7_ValidatedBeforeUpload ==
  \A s \in JobIds :
    /\ P[s].uploads # <<>> => P[s].validated
    /\ P[s].err = "GLB file validation failed" =>
         P[s].uploads = <<>> /\ ~P[s].updatedFrame

\* A run is in the catch block because its GLB exceeded the size ceiling.
C7_ValidationFailed ==
  \E s \in JobIds :
    /\ P[s].pc = "catch"
    /\ P[s].err = "GLB file validation failed"
    /\ P[s].genCalls = 1

\* C8: a run whose call of generateModels threw has left no uploaded artifact.
C8_NoUploadOnFailure ==
  \A s \in JobIds : P[s].genEnd = "threw" => P[s].uploads = <<>>

\* C9: once generateModels has returned or thrown, none of the scratch files
\* it wrote is left in the temp directory.
C9_ScratchFilesRemoved ==
  \A s \in JobIds : P[s].genEnd # "no" => P[s].wrote \cap DOMAIN tempFiles = {}

\* C10: the conversion methods are invoked in the order usd_from_gltf,
\* Blender, Python USD, each only after every earlier one has failed, and none
\* after one has succeeded.
C10_MethodsInOrder ==
  \A s \in JobIds :
    LET tried == P[s].tried
    IN /\ Len(tried) <= Len(Methods)
       /\ \A k \in 1..Len(tried) :
            /\ tried[k].method = Methods[k]
            /\ k < Len(tried) => tried[k].result = "failed"

\* The third method succeeded after the first two had failed.
C10_ThirdMethodSucceeded ==
  \E s \in JobIds :
    /\ Len(P[s].tried) = 3
    /\ P[s].tried[3].result = "succeeded"
    /\ P[s].success

\* The only way a step of generateModels fails in a single job: control is in
\* the worker's catch block with the error of the call that rejected.
C11_CallRejected(s) == P'[s].pc = "catch" /\ P'[s].err = Rejected /\ P'[s].genEnd = "threw"

\* C11: when no conversion method has succeeded, generateModels does not
\* throw but goes on to createSimpleUSDZ; the copy puts the GLB's content at
\* the USDZ path, the copy is uploaded under the USDZ key, and generateModels
\* returns with both URLs set. The fallback fails only when the copy or the
\* upload call itself rejects.
C11_Step ==
  \A s \in JobIds :
    LET glbPath == TempPath(P[s].frame, "glb")
        usdzPath == TempPath(P[s].frame, "usdz")
        usdzKey == StorageKey(P[s].frame.id, "usdz")
    IN (P[s].kind = "single" /\ P'[s] # P[s]) =>
         /\ (Gen(s, "convVerify") /\ ~P[s].success) =>
              P'[s].pc = "fallbackCopy" /\ P'[s].genEnd = "no"
         /\ Gen(s, "fallbackCopy") =>
              \/ /\ P'[s].pc = "fallbackUpload"
                 /\ tempFiles'[usdzPath] = tempFiles[glbPath]
              \/ C11_CallRejected(s)
         /\ Gen(s, "fallbackUpload") =>
              \/ /\ P'[s].pc = "cleanupGlb"
                 /\ storage'[usdzKey].content = tempFiles[usdzPath].kind
                 /\ P'[s].usdzUrl = getPublicUrl(usdzKey)
              \/ C11_CallRejected(s)
         /\ (P[s].usdzBy = "copy" /\ P[s].genEnd = "no" /\ P'[s].genEnd = "returned") =>
              /\ P'[s].pc = "updateFrame"
              /\ GenerationResult(P'[s]).glb_url # NoUrl
              /\ GenerationResult(P'[s]).usdz_url # NoUrl

C11_FallbackCompletes == [][C11_Step]_vars

\* generateModels has returned a result whose USDZ is the copy of the GLB.
C11_FallbackReturned ==
  \E s \in JobIds :
    /\ P[s].usdzBy = "copy"
    /\ P[s].genEnd = "returned"
    /\ StorageKey(P[s].frame.id, "usdz") \in DOMAIN storage
    /\ storage[StorageKey(P[s].frame.id, "usdz")].content = "glb"

\* C12: the result generateModels hands back carries a genuine flag, true
\* exactly when a converter produced the USDZ and false exactly when the copy
\* fallback did.
C12_GenuineFlag ==
  \A s \in JobIds :
    P[s].genEnd = "returned" =>
      /\ "genuine" \in DOMAIN GenerationResult(P[s])
      /\ GenerationResult(P[s]).genuine = (P[s].usdzBy = "converter")

\* The status a status query reports for a job in a given queue state
\* (waiting and delayed are both pending) or for a generation_jobs row.
StatusOf(state) ==
  IF state \in {"waiting", "delayed"} THEN "pending"
  ELSE IF state = "active" THEN "processing"
  ELSE state

StatusRank(status) ==
  IF status = "pending" THEN 1 ELSE IF status = "processing" THEN 2 ELSE 3

\* A status query that saw `old` never sees `new` afterwards unless the move
\* is forward and does not leave a terminal status.
Forward(old, new) ==
  /\ StatusRank(new) >= StatusRank(old)
  /\ old \in Terminal => new = old

\* C13: the status of a job, as getJobStatus reports it from the queue and as
\* its generation_jobs row holds it, only moves forward along pending,
\* processing, then completed or failed.
C13_Step ==
  /\ \A j \in DOMAIN queue \cap DOMAIN queue' :
       Forward(StatusOf(queue[j].state), StatusOf(queue'[j].state))
  /\ \A k \in 1..Len(records) : Forward(records[k].status, records'[k].status)

C13_StatusMovesForward == [][C13_Step]_vars

\* The jobs processGenerationJob is run for.
SingleJobIds == JobIds \ {BatchJobId}

\* A job that is being processed stays in the queue, and stays active until
\* its own processor run ends.
C14_Step ==
  \A j \in DOMAIN queue :
    queue[j].state = "active" =>
      /\ j \in DOMAIN queue'
      /\ queue'[j].state # "active" => (P[j].pc # "idle" /\ P'[j].pc = "idle")

HasModels(f) ==
  /\ frames[f] # NoFrame
  /\ frames[f].model_glb_url # NoUrl
  /\ frames[f].model_usdz_url # NoUrl

\* C15: a job's return value with status completed, and a generation_jobs row
\* with status completed, carries a GLB URL, a USDZ URL, a byte size and an
\* elapsed time, and the frames row of its frame holds both model URLs.
C15_CompletedIsPopulated ==
  /\ \A j \in DOMAIN queue :
       queue[j].returnvalue.status = "completed" =>
         /\ queue[j].returnvalue.glbUrl # NoUrl
         /\ queue[j].returnvalue.usdzUrl # NoUrl
         /\ queue[j].returnvalue.fileSize # Absent
         /\ queue[j].returnvalue.generationTimeMs # Absent
         /\ HasModels(queue[j].frameId)
  /\ \A k \in 1..Len(records) :
       records[k].status = "completed" =>
         /\ records[k].glb_url # NoUrl
         /\ records[k].usdz_url # NoUrl
         /\ records[k].file_size # Absent
         /\ records[k].generation_time_ms # Absent
         /\ HasModels(records[k].frame_id)

\* A job has returned the completed value and its row is completed.
C15_JobCompleted ==
  \E j \in DOMAIN queue, k \in 1..Len(records) :
    /\ queue[j].returnvalue.status = "completed"
    /\ records[k].status = "completed"
    /\ records[k].frame_id = queue[j].frameId
    /\ records[k].generation_time_ms = queue[j].returnvalue.generationTimeMs

\* The file at the path of the validateGLB call, when there is one.
Validated == tempFiles[call.filePath]

\* C16: validateGLB returns a boolean whatever is at the path (it does not
\* throw); false for every file whose size is above maxSizeMB megabytes and
\* for every path that cannot be stat'ed or parsed; and true only for a file
\* within the ceiling that parses as a GLB with at least one scene.
C16_ValidateGLB ==
  (call.fn = "validateGLB" /\ call.done) =>
    /\ call.result \in BOOLEAN
    /\ call.filePath \notin DOMAIN tempFiles => call.result = FALSE
    /\ call.filePath \in DOMAIN tempFiles =>
         /\ Validated.size > call.maxSizeMB * 1048576 => call.result = FALSE
         /\ Validated.kind # "glb" => call.result = FALSE
         /\ call.result = TRUE =>
              /\ Validated.size <= call.maxSizeMB * 1048576
              /\ Validated.kind = "glb"
              /\ Validated.scenes >= 1

\* validateGLB has returned true for a file whose size is exactly the ceiling.
C16_AcceptedAtCeiling ==
  /\ call.fn = "validateGLB"
  /\ call.done
  /\ call.result = TRUE
  /\ call.filePath \in DOMAIN tempFiles
  /\ tempFiles[call.filePath].size = call.maxSizeMB * 1048576

\* The vertices, and the indices, of the edges before edge k of the call.
RECURSIVE VertexBase(_)
VertexBase(k) == IF k = 1 THEN 0 ELSE VertexBase(k - 1) + call.geometries[k - 1].count

RECURSIVE IndexBase(_)
IndexBase(k) == IF k = 1 THEN 0 ELSE IndexBase(k - 1) + Len(call.geometries[k - 1].index)

\* C17: the geometry merged from the four per-edge geometries has as many
\* vertices as the four together and 3 positions per vertex; each of its
\* indices is the input index plus the number of vertices of the edges before
\* its own, and so is below the merged vertex count.
C17_MergePreservesVertices ==
  (call.fn = "mergeGeometries" /\ call.done) =>
    LET total == VertexBase(Len(Edges) + 1)
    IN /\ call.merged.count = total
       /\ Len(call.merged.position) = 3 * total
       /\ Len(call.merged.index) = IndexBase(Len(Edges) + 1)
       /\ \A k \in 1..Len(Edges) : \A i \in 1..Len(call.geometries[k].index) :
            call.merged.index[IndexBase(k) + i] = call.geometries[k].index[i] + VertexBase(k)
       /\ \A i \in 1..Len(call.merged.index) :
            call.merged.index[i] >= 0 /\ call.merged.index[i] < total

\* Four geometries of MaxVertices vertices each were merged, and the last
\* index of the left edge points at the last merged vertex.
C17_LastVertexIndexed ==
  /\ call.fn = "mergeGeometries"
  /\ call.done
  /\ \A k \in 1..Len(Edges) : call.geometries[k].count = 2 /\ Len(call.geometries[k].index) = 2
  /\ call.merged.index[8] = 7

\* C18: the aggregate a batch returns reports a count for each kind of
\* outcome, the not-found ones included, and its counts add up to its total,
\* the number of frame ids.
C18_AggregateAccountsForAll ==
  batch.pc = "returned" =>
    LET aggregate == BatchResult(batch)
        notFound == IF "notFound" \in DOMAIN aggregate THEN aggregate.notFound ELSE 0
    IN /\ aggregate.total = Len(batch.frameIds)
       /\ aggregate.successful + aggregate.failed + aggregate.skipped + notFound
            = aggregate.total

\* C19: once gracefulShutdown has quit the Redis connection, and when the
\* process exits, no job is being processed: every processor run that was
\* going when the signal came has ended.
C19_DrainedBeforeQuit ==
  (call.fn = "gracefulShutdown" /\ (call.connection = "quit" \/ call.done)) =>
    /\ Active = {}
    /\ \A j \in DOMAIN queue : queue[j].state # "active"

\* The process has exited after a shutdown that began with two jobs in flight.
C19_ExitedAfterDrain ==
  /\ call.fn = "gracefulShutdown"
  /\ call.done
  /\ Cardinality(call.inFlight) = 2

\* C20: within one attempt nothing is uploaded to storage before the USDZ
\* conversion, or its fallback, has finished, and the frame's record is
\* updated only after both artifacts were uploaded.
C20_StagesInOrder ==
  \A s \in JobIds :
    /\ P[s].uploads # <<>> => P[s].usdzBy # "none"
    /\ P[s].updatedFrame => Len(P[s].uploads) = 2

\* The processor of slot s is inside convertGLBToUSDZ.
Converting(s) ==
  P[s].pc \in {"convAccess", "usdFromGltf", "blenderWrite", "blenderExec", "blenderUnlink",
               "pythonWrite", "pythonExec", "pythonUnlink", "convVerify",
               "usdFromGltfHung", "blenderExecHung", "pythonExecHung"}

\* C21: convertGLBToUSDZ always terminates, also when an external tool never
\* returns: a processor that has entered the conversion eventually leaves it.
C21_ConversionTerminates == \A s \in JobIds : Converting(s) ~> ~Converting(s)

\* The catch block of processGenerationJob in slot s ends in this step.
C22_Step ==
  \A s \in JobIds :
    (P[s].kind = "single" /\ P[s].pc = "catch" /\ P'[s].pc # "catch") =>
      /\ records'[P[s].rec].status = "failed"
      /\ records'[P[s].rec].error_message = P[s].err
      /\ queue'[s].attemptsMade = queue[s].attemptsMade + 1
      /\ queue'[s].failedReason = P[s].err
      /\ queue'[s].state \in {"delayed", "failed"}

\* C22: an exception raised inside the try block of processGenerationJob sets
\* the attempt's record to failed with the exception's message and is
\* rethrown, so that the queue counts the attempt as failed with that error.
C22_CatchRecordsFailure == [][C22_Step]_vars

\* The jobs the queue holds in the active state.
ActiveJobs == {j \in DOMAIN queue : queue[j].state = "active"}

\* The stage at which the single-job processor of slot s stands has everything
\* the stages before it produce, and nothing of the stages after it.
OneStage(s) ==
  LET pc == P[s].pc
  IN /\ pc \in {"getFrame", "createJob", "setProcessing", "export", "validate"} =>
          P[s].uploads = <<>> /\ ~P[s].validated /\ P[s].genEnd = "no"
     /\ pc = "uploadGLB" => P[s].uploads = <<>> /\ P[s].validated /\ P[s].genEnd = "no"
     /\ (Converting(s) \/ pc \in {"uploadUSDZ", "fallbackCopy", "fallbackUpload"}) =>
          P[s].uploads = <<"glb">> /\ P[s].genEnd = "no"
     /\ pc \in {"cleanupGlb", "cleanupUsdz"} =>
          P[s].uploads = <<"glb", "usdz">> /\ P[s].genEnd = "no"
     /\ pc = "updateFrame" => P[s].genEnd = "returned" /\ ~P[s].updatedFrame
     /\ pc \in {"setCompleted", "progress100"} =>
          P[s].genEnd = "returned" /\ P[s].updatedFrame

\* C23: the worker never has more than WORKER_CONCURRENCY jobs active, and
\* each active single job is at one stage, entered after the stages before it
\* have ended.
C23_PoolIsBounded ==
  /\ Cardinality(Active) <= WORKER_CONCURRENCY
  /\ Cardinality(ActiveJobs) <= WORKER_CONCURRENCY
  /\ ActiveJobs = Active
  /\ \A s \in Active : P[s].kind = "single" => OneStage(s)

\* Both slots are taken, one of them past the conversion, and a third job
\* waits.
C23_ThirdJobWaits ==
  /\ Cardinality(Active) = WORKER_CONCURRENCY
  /\ \E s \in Active : P[s].pc = "cleanupGlb"
  /\ \E j \in DOMAIN queue : queue[j].state = "waiting"

\* The profile of the generateFrameGeometry call as a flat profile of the
\* given depth.
AsFlat(depth) == [call.profile EXCEPT !.type = "flat", !.depth = depth]

\* C24: a profile whose type is none of the six known values is generated
\* exactly as the same profile of type flat, and a shadowbox profile exactly as
\* the flat profile whose depth is max(depth, 2) and whose other parameters are
\* the same.
C24_FallsBackToFlat ==
  (call.fn = "generateFrameGeometry" /\ call.done) =>
    /\ call.profile.type \notin ProfileTypes =>
         call.result = generateFrameGeometry(AsFlat(call.profile.depth), call.outerWidth,
                                             call.outerHeight)
    /\ call.profile.type = "shadowbox" =>
         call.result =
           generateFrameGeometry(AsFlat(IF call.profile.depth > 2 THEN call.profile.depth ELSE 2),
                                 call.outerWidth, call.outerHeight)

\* A shadowbox profile one inch deep was generated two inches deep.
C24_ShallowShadowBox ==
  /\ call.fn = "generateFrameGeometry"
  /\ call.done
  /\ call.profile.type = "shadowbox"
  /\ call.profile.depth = 1
  /\ call.result.shape.frameDepth = 2 * INCHES_TO_METERS

\* A single submission for a frame whose job id the queue holds.
C25_Step ==
  \A f \in FrameIds, o \in Options :
    addGenerationJobAgain(f, o.forceRegenerate, o.priority) =>
      /\ DOMAIN queue' = DOMAIN queue
      /\ queue' = queue
      /\ created' = created

\* C25: while the queue holds a job under the id frame-<frameId>, in any state,
\* a single submission for that frame adds no job and leaves the held job's
\* data and state as they were.
C25_ResubmissionIsIgnored == [][C25_Step]_vars

\* A forced submission was made for a frame whose unforced job the queue held
\* in the failed state, and the job is still unforced and failed.
C25_ForcedAfterFailed ==
  /\ call.fn = "addGenerationJob"
  /\ call.forceRegenerate
  /\ call.held = "failed"
  /\ ~queue[FrameJobId(call.frameId)].forceRegenerate
  /\ queue[FrameJobId(call.frameId)].state = "failed"

\* The rows of generation_jobs that are completed.
CompletedRecords == {i \in 1..Len(records) : records[i].status = "completed"}

\* An attempt that gets its record gets a new one, and a step changes a row
\* only on behalf of the attempt the row was inserted by.
C26_Step ==
  /\ \A s \in JobIds :
       (P[s].pc = "createJob" /\ P'[s].pc = "setProcessing") =>
         /\ Len(records') = Len(records) + 1
         /\ P'[s].rec = Len(records')
         /\ \A t \in JobIds \ {s} : P[t].rec # P'[s].rec
  /\ \A i \in 1..Len(records) :
       records'[i] # records[i] => \E s \in JobIds : P[s].pc # "idle" /\ P[s].rec = i

\* C26: every attempt past the skip check has a generation_jobs row of its
\* own, no attempt changes the row of another, and of the rows of one queue job
\* at most one is completed.
C26_OneRecordPerAttempt ==
  /\ [][C26_Step]_vars
  /\ [](Cardinality(CompletedRecords) <= 1)

\* The rows of generation_jobs whose attempt is still running.
OwnedRecords == {P[s].rec : s \in {t \in JobIds : P[t].pc # "idle" /\ P[t].kind = "single"}}

\* C27: a generation_jobs row whose attempt has ended is completed or failed,
\* never pending or processing.
C27_RecordsReachTerminal ==
  \A i \in 1..Len(records) :
    i \notin OwnedRecords => records[i].status \in {"completed", "failed"}

\* The attempt of slot s ends in this step with its record failed.
C28_Step ==
  \A s \in JobIds :
    (P[s].kind = "single" /\ P[s].pc = "catch" /\ P'[s].pc = "idle"
       /\ records'[P[s].rec].status = "failed") =>
      ~P[s].updatedFrame

\* C28: an attempt whose generation_jobs row ends as failed has not written
\* the frame's model URLs.
C28_FailedLeavesFrameAlone == [][C28_Step]_vars

\* C29: createSimpleUSDZ is not reached by a run whose conversion succeeded:
\* a converted USDZ is never replaced by a copy of the GLB.
C29_NoCopyOverConverted ==
  \A s \in JobIds :
    P[s].pc \in {"fallbackCopy", "fallbackUpload"} =>
      /\ P[s].usdzBy # "converter"
      /\ (P[s].pc = "fallbackCopy" /\ TempPath(P[s].frame, "usdz") \in DOMAIN tempFiles) =>
           tempFiles[TempPath(P[s].frame, "usdz")] # Converted

\* The scratch files the processor of slot t has written and has yet to read.
InUse(t) ==
  LET pc == P[t].pc
  IN (IF pc \in {"validate", "uploadGLB", "convAccess", "usdFromGltf", "blenderWrite",
                 "blenderExec", "pythonWrite", "pythonExec", "fallbackCopy"}
      THEN {TempPath(P[t].frame, "glb")} ELSE {})
     \cup (IF pc \in {"uploadUSDZ", "fallbackUpload"}
           THEN {TempPath(P[t].frame, "usdz")} ELSE {})
     \cup (IF pc = "blenderExec" THEN {ScriptPath("convert_to_usdz.py")} ELSE {})
     \cup (IF pc = "pythonExec" THEN {ScriptPath("convert_usd.py")} ELSE {})

\* A step of one processor leaves the files another processor is using.
C30_Step ==
  \A s \in JobIds, t \in JobIds :
    (s # t /\ P'[s] # P[s] /\ P'[t] = P[t]) =>
      \A path \in InUse(t) \cap DOMAIN tempFiles :
        path \in DOMAIN tempFiles' /\ tempFiles'[path] = tempFiles[path]

\* C30: no processor overwrites or deletes a scratch file that another
\* processor running at the same time is still using.
C30_ScratchFilesDisjoint == [][C30_Step]_vars

====
